---------------------------- MODULE Spec2Model ----------------------------
(***************************************************************************)
(* ReWOO (src/ReWOO/graph.py): plan -> tool (repeated) -> solve -> END.    *)
(*                                                                         *)
(* Text is modelled as a sequence of one-character strings, so that        *)
(* re.findall and str.replace are computed character by character, as      *)
(* Python computes them.                                                   *)
(***************************************************************************)
EXTENDS Integers, Sequences, FiniteSets, TLC

(***************************************************************************)
(* Bounds of the model.                                                    *)
(***************************************************************************)
\* the largest number of "Plan: ..." clauses the planner writes
MaxClauses == 2

\* tool_execution runs at most this often in one behaviour (a plan whose
\* variables repeat never leaves the tool node, so the count needs a cap)
MaxExec == MaxClauses + 1

(***************************************************************************)
(* Characters and character classes of the regular expression.             *)
(***************************************************************************)
NL == "\n"

Digits == {"0", "1", "2", "3", "4", "5", "6", "7", "8", "9"}

Letters == {"P", "l", "a", "n", "L", "M", "G", "o", "g", "e", "C", "c",
            "E", "d", "u", "q", "x", "r", "s", "A", "T", "_"}

\* every character the texts of the model are written in
Alphabet == Letters \cup Digits \cup {" ", NL, "#", "=", "[", "]", ":"}

\* \s
Space == {" ", NL}

\* \d
Digit == Digits

\* \w
Word == Letters \cup Digits

\* . under re.DOTALL
DotWithNewline == Alphabet

\* . (no flag is given: every character but the newline)
Dot == Alphabet \ {NL}

\* [^\]]
NotClose == Alphabet \ {"]"}

Max(S) == CHOOSE m \in S : \A o \in S : o <= m

Min(S) == CHOOSE m \in S : \A o \in S : m <= o

\* s[i..] without its first n characters
Drop(s, n) == SubSeq(s, n + 1, Len(s))

\* s.startswith(lit, i - 1)
LitAt(s, i, lit) ==
    /\ i >= 1
    /\ i + Len(lit) - 1 <= Len(s)
    /\ \A k \in 1..Len(lit) : s[i + k - 1] = lit[k]

\* the position after the longest run of characters of class P that starts
\* at position i (i itself when the run is empty): a greedy P*
RECURSIVE RunEnd(_, _, _)
RunEnd(s, i, P) ==
    IF i <= Len(s) /\ s[i] \in P THEN RunEnd(s, i + 1, P) ELSE i

(***************************************************************************)
(* str.replace(old, new): every non-overlapping occurrence of old, found   *)
(* from the left, is replaced; the text put in is not scanned again by    *)
(* this call.                                                              *)
(***************************************************************************)
RECURSIVE Replace(_, _, _)
Replace(s, old, new) ==
    IF Len(s) < Len(old) \/ Len(old) = 0 THEN s
    ELSE IF LitAt(s, 1, old) THEN new \o Replace(Drop(s, Len(old)), old, new)
    ELSE <<Head(s)>> \o Replace(Tail(s), old, new)

\* str.count(old): the non-overlapping occurrences of old in s
RECURSIVE Count(_, _)
Count(s, old) ==
    IF Len(s) < Len(old) \/ Len(old) = 0 THEN 0
    ELSE IF LitAt(s, 1, old) THEN 1 + Count(Drop(s, Len(old)), old)
    ELSE Count(Tail(s), old)

(***************************************************************************)
(* regex_pattern =                                                         *)
(*   Plan:\s*(.+)\s*(#E\d+)\s*=\s*(\w+)\s*\[([^\]]+)\]                     *)
(***************************************************************************)
PlanLit == <<"P", "l", "a", "n", ":">>

HashE == <<"#", "E">>

NoMatch == [ok |-> FALSE]

\* The part of the pattern after (.+), matched at position i:
\*   \s*(#E\d+)\s*=\s*(\w+)\s*\[([^\]]+)\]
\* Every greedy run here is followed by a character outside the class of the
\* run, so the longest run is the only one the backtracking matcher can
\* succeed with.
TailMatch(t, i) ==
    LET a == RunEnd(t, i, Space)
        b == RunEnd(t, a + 2, Digit)
        c == RunEnd(t, b, Space)
        d == RunEnd(t, c + 1, Space)
        e == RunEnd(t, d, Word)
        f == RunEnd(t, e, Space)
        g == RunEnd(t, f + 1, NotClose)
    IN  IF /\ i <= Len(t) + 1
           /\ LitAt(t, a, HashE)
           /\ b > a + 2
           /\ LitAt(t, c, <<"=">>)
           /\ e > d
           /\ LitAt(t, f, <<"[">>)
           /\ g > f + 1
           /\ LitAt(t, g, <<"]">>)
        THEN [ok |-> TRUE,
              var |-> SubSeq(t, a, b - 1),
              tool |-> SubSeq(t, d, e - 1),
              input |-> SubSeq(t, f + 1, g - 1),
              end |-> g + 1]
        ELSE NoMatch

\* The whole pattern matched at position i (re.match semantics at i). The
\* two runs with a real choice are the first \s* and (.+); both are greedy,
\* so the matcher returns the match with the longest \s*, and with the
\* longest (.+) for that \s*.
MatchAt(t, i) ==
    LET p0 == i + Len(PlanLit)
        DescEnds(s) == {e \in (s + 1)..RunEnd(t, s, Dot) : TailMatch(t, e).ok}
        Starts == {s \in p0..RunEnd(t, p0, Space) : DescEnds(s) # {}}
        s0 == Max(Starts)
        e0 == Max(DescEnds(s0))
        m == TailMatch(t, e0)
    IN  IF LitAt(t, i, PlanLit) /\ Starts # {}
        THEN [ok |-> TRUE,
              groups |-> <<SubSeq(t, s0, e0 - 1), m.var, m.tool, m.input>>,
              end |-> m.end]
        ELSE NoMatch

\* re.findall(regex_pattern, t): the matches found from the left, each search
\* resuming where the match before it ended; one tuple of the four groups
\* (description, variable, tool, input) per match.
RECURSIVE FindFrom(_, _)
FindFrom(t, pos) ==
    LET found == {i \in pos..Len(t) : MatchAt(t, i).ok}
        m == MatchAt(t, Min(found))
    IN  IF found = {} THEN <<>> ELSE <<m.groups>> \o FindFrom(t, m.end)

FindAll(t) == FindFrom(t, 1)

(***************************************************************************)
(* The results dict.  A Python dict keeps its keys in insertion order, and *)
(* .items() iterates in that order: a sequence of <<key, value>> pairs.    *)
(***************************************************************************)
DictKeys(d) == {d[i][1] : i \in 1..Len(d)}

DictGet(d, k) == d[CHOOSE i \in 1..Len(d) : d[i][1] = k][2]

\* d[k] = v: a new key is appended, a present key keeps its place and takes
\* the new value
DictSet(d, k, v) ==
    IF k \in DictKeys(d)
    THEN [i \in 1..Len(d) |-> IF d[i][1] = k THEN <<k, v>> ELSE d[i]]
    ELSE Append(d, <<k, v>>)

\* for k, v in _results.items(): text = text.replace(k, v)
RECURSIVE SubstFrom(_, _, _)
SubstFrom(text, d, i) ==
    IF i > Len(d) THEN text
    ELSE SubstFrom(Replace(text, d[i][1], d[i][2]), d, i + 1)

Substitute(text, d) == SubstFrom(text, d, 1)

(***************************************************************************)
(* The texts the collaborators produce.                                    *)
(***************************************************************************)
E1 == <<"#", "E", "1">>

E2 == <<"#", "E", "2">>

E10 == <<"#", "E", "1", "0">>

LLM == <<"L", "L", "M">>

Google == <<"G", "o", "o", "g", "l", "e">>

\* a tool name that tool_execution does not know (the planner prompt's own
\* example names WolframAlpha and Calculator)
Calc == <<"C", "a", "l", "c">>

TaskText == <<"T">>

\* what the planner writes in one clause: description and tool input
Bodies == { [desc |-> <<"d">>, input |-> <<"q">>],
            [desc |-> <<"u", " ">> \o E1,
             input |-> E2 \o <<" ">> \o E10] }

PlanVars == {E1, E2, E10}

PlanTools == {LLM, Google, Calc}

Clauses == {[desc |-> b.desc, var |-> v, tool |-> t, input |-> b.input] :
              b \in Bodies, v \in PlanVars, t \in PlanTools}

\* what stands between two clauses of the plan text
Seps == {<<NL>>, <<" ">>}

\* str(result) of a tool call; the second one holds a variable-shaped token
ResultTexts == {<<"5">>, <<"r", " ">> \o E2}

AnswerTexts == {<<"A">>}

\* 'Plan: <description> #E<n> = <Tool>[<input>]'
RenderClause(c) ==
    PlanLit \o <<" ">> \o c.desc \o <<" ">> \o c.var \o <<" ", "=", " ">>
      \o c.tool \o <<"[">> \o c.input \o <<"]">>

RECURSIVE RenderPlan(_, _)
RenderPlan(cl, sep) ==
    IF Len(cl) = 0 THEN <<>>
    ELSE IF Len(cl) = 1 THEN RenderClause(cl[1])
    ELSE RenderClause(cl[1]) \o sep \o RenderPlan(Tail(cl), sep)

ClauseSeqs == UNION {[1..n -> Clauses] : n \in 0..MaxClauses}


(***************************************************************************)
(* The state of one run of the graph.                                      *)
(***************************************************************************)
VARIABLES
    pc,           \* the node the graph runs next: "plan", "tool", "solve",
                  \* "END", or "failed" once a node has raised
    has,          \* the keys of the ReWOO state dict that have been written
    task,         \* state["task"]
    plan_string,  \* state["plan_string"]
    steps,        \* state["steps"]: tuples <<description, variable, tool, input>>
    results,      \* state["results"]
    result,       \* state["result"]
    error,        \* what the failing node raised, "none" before that
    clauses,      \* the clauses the planner wrote into its text
    sep,          \* what the planner put between two clauses
    nexec,        \* how many times tool_execution has returned
    dispatched,   \* the tool calls made so far, in order
    nsolve,       \* how many times solve has called llm.invoke
    transcript,   \* the plan text solve put into its prompt
    run,          \* two concurrent runs: the ReWOO state record of each
    heap,         \* the dict objects the results keys of the runs refer to
    owner,        \* for each dict object, the runs that have written to it
    actor         \* the run whose node ran last, 0 before any

vars == <<pc, has, task, plan_string, steps, results, result, error,
          clauses, sep, nexec, dispatched, nsolve, transcript,
          run, heap, owner, actor>>

state_vars == <<has, task, plan_string, steps, results, result>>

ghost_vars == <<clauses, sep, nexec, dispatched, nsolve, transcript>>

two_vars == <<run, heap, owner, actor>>

one_vars == <<pc, error, state_vars, ghost_vars>>

Tasks == {1, 2}

\* the state record of a run before its first node, as app.stream gets it
NewRun ==
    [pc |-> "plan", has |-> {"task"}, task |-> TaskText, plan_string |-> <<>>,
     steps |-> <<>>, ref |-> 0, result |-> <<>>, error |-> "none",
     nexec |-> 0]

\* one run of the graph
OneRun ==
    /\ pc = "plan"
    /\ has = {"task"}
    /\ task = TaskText
    /\ plan_string = <<>>
    /\ steps = <<>>
    /\ results = <<>>
    /\ result = <<>>
    /\ error = "none"
    /\ clauses = <<>>
    /\ sep = <<>>
    /\ nexec = 0
    /\ dispatched = <<>>
    /\ nsolve = 0
    /\ transcript = <<>>

\* no second run next to it
NoRuns ==
    /\ run = [t \in Tasks |-> NewRun]
    /\ heap = <<>>
    /\ owner = <<>>
    /\ actor = 0

\* app.stream({"task": task}): only the task is in the state
Init == OneRun /\ NoRuns

\* the first exception of a run is swallowed and the node is run again
RaiseRetryOnce(kind) ==
    /\ pc' = IF error = "none" THEN pc ELSE "failed"
    /\ error' = kind

\* a node raises: the run ends with the state as the last node left it
Raise(kind) ==
    /\ pc' = "failed"
    /\ error' = kind

\* _get_current_task; 0 stands for None
_get_current_task(h, res, st) ==
    IF "results" \notin h THEN 1
    ELSE IF Len(res) = Len(st) THEN 0
    ELSE Len(res) + 1

\* routes to solve as soon as one result is stored
RouteEager(h, res, st) ==
    IF "results" \in h /\ Len(res) >= 1 THEN "solve" ELSE "tool"

_route(h, res, st) ==
    IF _get_current_task(h, res, st) = 0 THEN "solve" ELSE "tool"

\* every tool name is dispatched to the LLM
KnownToolAny(tool) == TRUE

\* the branches of tool_execution that do not raise ValueError
KnownTool(tool) == tool = Google \/ tool = LLM

\* get_plan: the planner call raises
GetPlanFails ==
    /\ pc = "plan"
    /\ Raise("PlanningFailure")
    /\ UNCHANGED <<state_vars, ghost_vars>>
    /\ UNCHANGED two_vars

\* get_plan, then the edge plan -> tool
GetPlan ==
    /\ pc = "plan"
    /\ \E cl \in ClauseSeqs, sp \in Seps :
         /\ clauses' = cl
         /\ sep' = sp
         /\ plan_string' = RenderPlan(cl, sp)
    /\ steps' = FindAll(plan_string')
    /\ has' = has \cup {"steps", "plan_string"}
    /\ pc' = "tool"
    /\ UNCHANGED <<task, results, result, error, nexec, dispatched, nsolve,
                   transcript>>
    /\ UNCHANGED two_vars

\* state["results"] as tool_execution and solve read it
CurResults == IF "results" \in has THEN results ELSE <<>>

CurStep == _get_current_task(has, results, steps)

\* _, step_name, tool, tool_input = state["steps"][_step - 1]
CurName == steps[CurStep][2]

CurTool == steps[CurStep][3]

\* the tool call of the current step, after the substitution loop
CurCall ==
    [idx |-> CurStep, tool |-> CurTool, raw |-> steps[CurStep][4],
     env |-> CurResults, input |-> Substitute(steps[CurStep][4], CurResults)]

\* tool_execution: steps[_step - 1] does not exist (None - 1 raises before
\* the index is even used)
ToolNoStep ==
    /\ pc = "tool"
    /\ CurStep = 0 \/ CurStep > Len(steps)
    /\ Raise(IF CurStep = 0 THEN "TypeError" ELSE "IndexError")
    /\ UNCHANGED <<state_vars, ghost_vars>>
    /\ UNCHANGED two_vars

\* tool_execution: the tool is neither Google nor LLM
ToolUnknown ==
    /\ pc = "tool"
    /\ CurStep \in 1..Len(steps)
    /\ ~KnownTool(CurTool)
    /\ Raise("ValueError")
    /\ UNCHANGED <<state_vars, ghost_vars>>
    /\ UNCHANGED two_vars

\* tool_execution: search.invoke or llm.invoke raises
ToolFails ==
    /\ pc = "tool"
    /\ CurStep \in 1..Len(steps)
    /\ KnownTool(CurTool)
    /\ dispatched' = Append(dispatched, CurCall)
    /\ Raise("DispatchFailure")
    /\ UNCHANGED <<state_vars, clauses, sep, nexec, nsolve, transcript>>
    /\ UNCHANGED two_vars

\* tool_execution writes the substituted input back into the step
ToolExecutionEager ==
    /\ pc = "tool"
    /\ nexec < MaxExec
    /\ CurStep \in 1..Len(steps)
    /\ KnownTool(CurTool)
    /\ dispatched' = Append(dispatched, CurCall)
    /\ \E v \in ResultTexts :
         results' = DictSet(CurResults, CurName, v)
    /\ steps' = [steps EXCEPT ![CurStep][4] = CurCall.input]
    /\ has' = has \cup {"results"}
    /\ nexec' = nexec + 1
    /\ pc' = _route(has', results', steps')
    /\ UNCHANGED <<task, plan_string, result, error, clauses, sep,
                   nsolve, transcript>>
    /\ UNCHANGED two_vars

\* tool_execution returns, then the conditional edge _route
ToolExecution ==
    /\ pc = "tool"
    /\ nexec < MaxExec
    /\ CurStep \in 1..Len(steps)
    /\ KnownTool(CurTool)
    /\ dispatched' = Append(dispatched, CurCall)
    /\ \E v \in ResultTexts :
         results' = DictSet(CurResults, CurName, v)
    /\ has' = has \cup {"results"}
    /\ nexec' = nexec + 1
    /\ pc' = _route(has', results', steps)
    /\ UNCHANGED <<task, plan_string, steps, result, error, clauses, sep,
                   nsolve, transcript>>
    /\ UNCHANGED two_vars

\* the entry shows the input of the step as the planner wrote it
SolveEntryRaw(st, d) ==
    PlanLit \o <<" ">> \o st[1] \o <<NL>> \o Substitute(st[2], d)
      \o <<" ", "=", " ">> \o st[3] \o <<"[">> \o st[4] \o <<"]">>

\* one pass of the loop of solve: the entry of one step in the prompt
SolveEntry(st, d) ==
    PlanLit \o <<" ">> \o st[1] \o <<NL>> \o Substitute(st[2], d)
      \o <<" ", "=", " ">> \o st[3] \o <<"[">> \o Substitute(st[4], d) \o <<"]">>

RECURSIVE SolvePlanFrom(_, _, _)
SolvePlanFrom(st, d, i) ==
    IF i > Len(st) THEN <<>>
    ELSE SolveEntry(st[i], d) \o SolvePlanFrom(st, d, i + 1)

\* the variable plan of solve after its loop
SolvePlan(st, d) == SolvePlanFrom(st, d, 1)

\* solve: llm.invoke raises
SolveFails ==
    /\ pc = "solve"
    /\ transcript' = SolvePlan(steps, CurResults)
    /\ nsolve' = nsolve + 1
    /\ Raise("SynthesisFailure")
    /\ UNCHANGED <<state_vars, clauses, sep, nexec, dispatched>>
    /\ UNCHANGED two_vars

\* solve, then the edge solve -> END
Solve ==
    /\ pc = "solve"
    /\ transcript' = SolvePlan(steps, CurResults)
    /\ nsolve' = nsolve + 1
    /\ \E a \in AnswerTexts : result' = a
    /\ has' = has \cup {"result"}
    /\ pc' = "END"
    /\ UNCHANGED <<task, plan_string, steps, results, error, clauses, sep,
                   nexec, dispatched>>
    /\ UNCHANGED two_vars

Next ==
    \/ GetPlanFails
    \/ GetPlan
    \/ ToolNoStep
    \/ ToolUnknown
    \/ ToolFails
    \/ ToolExecution
    \/ SolveFails
    \/ Solve

Spec == Init /\ [][Next]_vars


(***************************************************************************)
(* Two runs of the graph side by side.  Each run has its own state record; *)
(* state["results"] is a reference to a dict object, and tool_execution    *)
(* changes that object in place when the record already has one.           *)
(***************************************************************************)
\* the plans of the two runs: plain clauses, known and unknown tools
TwoClauses ==
    {c \in Clauses : /\ c.desc = <<"d">>
                     /\ \/ c.var \in {E1, E2} /\ c.tool = LLM
                        \/ c.var = E2 /\ c.tool = Calc}

TwoClauseSeqs == UNION {[1..n -> TwoClauses] : n \in 0..MaxClauses}

\* every run that makes its first tool call gets the same dict object
SharedAddr(h) == 1

\* the {} of tool_execution is an object no other reference leads to
NewAddr(h) == Len(h) + 1

Load(h, a) == IF a \in 1..Len(h) THEN h[a] ELSE <<>>

Store(h, a, d) == IF a \in 1..Len(h) THEN [h EXCEPT ![a] = d] ELSE Append(h, d)

\* the runs that have written to the dict object at a
Writers(a) == IF a \in 1..Len(owner) THEN owner[a] ELSE {}

\* state["results"] of run t as tool_execution and solve read it
TaskResults(t) ==
    IF "results" \in run[t].has THEN Load(heap, run[t].ref) ELSE <<>>

\* _results = (state["results"] or {}) if "results" in state else {}
TaskAddr(t) ==
    IF "results" \in run[t].has /\ Len(TaskResults(t)) > 0
    THEN run[t].ref ELSE NewAddr(heap)

TaskStep(t) == _get_current_task(run[t].has, TaskResults(t), run[t].steps)

TaskRaise(t, kind) ==
    /\ run' = [run EXCEPT ![t].pc = "failed", ![t].error = kind]
    /\ actor' = t
    /\ UNCHANGED <<heap, owner, one_vars>>

\* get_plan of run t: the planner call raises
TaskGetPlanFails(t) ==
    /\ run[t].pc = "plan"
    /\ TaskRaise(t, "PlanningFailure")

\* get_plan of run t, then the edge plan -> tool
TaskGetPlan(t) ==
    /\ run[t].pc = "plan"
    /\ \E cl \in TwoClauseSeqs :
         run' = [run EXCEPT ![t].plan_string = RenderPlan(cl, <<NL>>),
                            ![t].steps = FindAll(RenderPlan(cl, <<NL>>)),
                            ![t].has = @ \cup {"steps", "plan_string"},
                            ![t].pc = "tool"]
    /\ actor' = t
    /\ UNCHANGED <<heap, owner, one_vars>>

TaskToolNoStep(t) ==
    /\ run[t].pc = "tool"
    /\ TaskStep(t) = 0 \/ TaskStep(t) > Len(run[t].steps)
    /\ TaskRaise(t, IF TaskStep(t) = 0 THEN "TypeError" ELSE "IndexError")

TaskToolUnknown(t) ==
    /\ run[t].pc = "tool"
    /\ TaskStep(t) \in 1..Len(run[t].steps)
    /\ ~KnownTool(run[t].steps[TaskStep(t)][3])
    /\ TaskRaise(t, "ValueError")

TaskToolFails(t) ==
    /\ run[t].pc = "tool"
    /\ TaskStep(t) \in 1..Len(run[t].steps)
    /\ KnownTool(run[t].steps[TaskStep(t)][3])
    /\ TaskRaise(t, "DispatchFailure")

\* tool_execution of run t returns, then the conditional edge _route
TaskToolExecution(t) ==
    /\ run[t].pc = "tool"
    /\ run[t].nexec < MaxExec
    /\ TaskStep(t) \in 1..Len(run[t].steps)
    /\ KnownTool(run[t].steps[TaskStep(t)][3])
    /\ \E v \in ResultTexts :
         heap' = Store(heap, TaskAddr(t),
                       DictSet(Load(heap, TaskAddr(t)),
                               run[t].steps[TaskStep(t)][2], v))
    /\ owner' = Store(owner, TaskAddr(t), Writers(TaskAddr(t)) \cup {t})
    /\ run' = [run EXCEPT
                 ![t].ref = TaskAddr(t),
                 ![t].has = @ \cup {"results"},
                 ![t].nexec = @ + 1,
                 ![t].pc = _route(run[t].has \cup {"results"},
                                  Load(heap', TaskAddr(t)), run[t].steps)]
    /\ actor' = t
    /\ UNCHANGED one_vars

TaskSolveFails(t) ==
    /\ run[t].pc = "solve"
    /\ TaskRaise(t, "SynthesisFailure")

\* solve of run t, then the edge solve -> END
TaskSolve(t) ==
    /\ run[t].pc = "solve"
    /\ \E a \in AnswerTexts :
         run' = [run EXCEPT ![t].result = a,
                            ![t].has = @ \cup {"result"},
                            ![t].pc = "END"]
    /\ actor' = t
    /\ UNCHANGED <<heap, owner, one_vars>>

NextTwo ==
    \/ \E t \in Tasks : TaskGetPlanFails(t)
    \/ \E t \in Tasks : TaskGetPlan(t)
    \/ \E t \in Tasks : TaskToolNoStep(t)
    \/ \E t \in Tasks : TaskToolUnknown(t)
    \/ \E t \in Tasks : TaskToolFails(t)
    \/ \E t \in Tasks : TaskToolExecution(t)
    \/ \E t \in Tasks : TaskSolveFails(t)
    \/ \E t \in Tasks : TaskSolve(t)

SpecTwo == Init /\ [][NextTwo]_vars


(***************************************************************************)
(* Definitions the properties are written with.                            *)
(***************************************************************************)
\* get_plan has returned
Planned == "steps" \in has

\* the variables of the first n steps
StepVars(n) == {steps[i][2] : i \in 1..n}

KnownTools == {Google, LLM}

\* str.strip()
RECURSIVE TrimLeft(_)
TrimLeft(s) == IF Len(s) > 0 /\ Head(s) \in Space THEN TrimLeft(Tail(s)) ELSE s

RECURSIVE TrimRight(_)
TrimRight(s) ==
    IF Len(s) > 0 /\ s[Len(s)] \in Space
    THEN TrimRight(SubSeq(s, 1, Len(s) - 1)) ELSE s

Trim(s) == TrimRight(TrimLeft(s))

\* the results dict as the j-th tool call left it
ResultsAfter(j) ==
    IF j < Len(dispatched) THEN dispatched[j + 1].env ELSE CurResults

\* the tool calls that returned
Returned == 1..nexec

\* every substitution the run has made: those of the tool calls, and those
\* solve made on the inputs of the steps
Substitutions ==
    {[raw |-> dispatched[j].raw, env |-> dispatched[j].env,
      out |-> dispatched[j].input] : j \in 1..Len(dispatched)}
    \cup
    (IF nsolve = 0 THEN {}
     ELSE {[raw |-> steps[i][4], env |-> CurResults,
            out |-> Substitute(steps[i][4], CurResults)] : i \in 1..Len(steps)})

Reverse(d) == [i \in 1..Len(d) |-> d[Len(d) + 1 - i]]

(***************************************************************************)
(* C1.  Termination of the execution phase: with N parsed steps and no     *)
(* failed call, the loop runs tool_execution exactly N times, never more,  *)
(* and after the N-th the graph is at solve (or past it); it is not at     *)
(* solve before.                                                           *)
(***************************************************************************)
C1_ExactlyNExecutions ==
    (Planned /\ error = "none") =>
        /\ nexec <= Len(steps)
        /\ (nexec = Len(steps)) <=> (pc \in {"solve", "END"})

(***************************************************************************)
(* C2.  Progress monotonicity: every tool_execution that returns makes     *)
(* results one entry longer and leaves the entries it found as they were,  *)
(* so after j executions len(results) = j.                                 *)
(***************************************************************************)
C2_ProgressMonotone ==
    /\ Len(CurResults) = nexec
    /\ \A j \in Returned :
         LET before == dispatched[j].env
             after == ResultsAfter(j)
         IN  /\ Len(after) = Len(before) + 1
             /\ \A i \in 1..Len(before) : after[i] = before[i]

(***************************************************************************)
(* C3.  Empty plan: a plan text without a matching clause gives zero       *)
(* steps, and the run then makes no tool call and raises nothing before    *)
(* the synthesis call.                                                     *)
(***************************************************************************)
C3_EmptyPlanToSolve ==
    (Planned /\ Len(steps) = 0) =>
        /\ dispatched = <<>>
        /\ error \in {"none", "SynthesisFailure"}

(***************************************************************************)
(* C4.  Variable uniqueness: no two steps that get_plan returns have the   *)
(* same variable.                                                          *)
(***************************************************************************)
C4_UniqueVariables ==
    \A i, j \in 1..Len(steps) : i # j => steps[i][2] # steps[j][2]

(***************************************************************************)
(* C5.  Fatal on unknown capability: no tool call is ever made for a tool  *)
(* other than Google and LLM; when tool_execution raises ValueError the    *)
(* step it was at names such a tool, results holds exactly the entries of  *)
(* the steps before it as the last returned call left them, no answer is   *)
(* set and solve has not run; and once a node has raised, nothing runs.    *)
(***************************************************************************)
C5_ValueErrorState ==
    /\ \A j \in 1..Len(dispatched) : dispatched[j].tool \in KnownTools
    /\ error = "ValueError" =>
         LET k == Len(CurResults) + 1
         IN  /\ pc = "failed"
             /\ k \in 1..Len(steps)
             /\ steps[k][3] \notin KnownTools
             /\ DictKeys(CurResults) = StepVars(k - 1)
             /\ Len(dispatched) = nexec
             /\ nsolve = 0
             /\ "result" \notin has

\* C5: the state of a ValueError is as described in every reachable state,
\* raising ValueError leaves results as it was, and nothing runs after a raise
C5_FatalUnknownTool ==
    /\ []C5_ValueErrorState
    /\ [][error' = "ValueError" /\ error = "none" =>
            results' = results /\ has' = has]_vars
    /\ [][pc = "failed" => UNCHANGED vars]_vars

\* C5 happens: the second of two steps names an unknown tool
C5_Witness ==
    /\ error = "ValueError"
    /\ Len(results) = 1
    /\ Len(steps) = 2

(***************************************************************************)
(* C6.  Substitution completeness: after a substitution loop no occurrence *)
(* of a variable that is a key of results is left in the text, and the     *)
(* text holds the stored value of the variable once for every occurrence   *)
(* the variable had.                                                       *)
(***************************************************************************)
C6_SubstitutionComplete ==
    \A s \in Substitutions :
        \A k \in DictKeys(s.env) :
            /\ Count(s.out, k) = 0
            /\ Count(s.out, DictGet(s.env, k)) >= Count(s.raw, k)

(***************************************************************************)
(* C7.  No cascading re-substitution: a stored result that was put into    *)
(* the text and holds the token of a known variable stands in the output   *)
(* as it was stored, and the output does not depend on the order in which  *)
(* the variables are processed.                                            *)
(***************************************************************************)
C7_NoCascade ==
    \A s \in Substitutions :
        /\ s.out = SubstFrom(s.raw, Reverse(s.env), 1)
        /\ \A k \in DictKeys(s.env) :
             LET v == DictGet(s.env, k)
             IN  (Count(s.raw, k) > 0 /\ \E k2 \in DictKeys(s.env) : Count(v, k2) > 0)
                    => Count(s.out, v) > 0

(***************************************************************************)
(* C8.  Strict in-order execution: the j-th tool call is the call of step  *)
(* j, so no step is called twice, and the keys of results are the          *)
(* variables of the first len(results) steps.                              *)
(***************************************************************************)
C8_InOrder ==
    /\ \A j \in 1..Len(dispatched) : dispatched[j].idx = j
    /\ DictKeys(CurResults) = StepVars(Len(CurResults))

(***************************************************************************)
(* C9.  Parser round-trip.  The steps get_plan returns are the clauses the *)
(* plan text was built from, in order, up to str.strip() of description    *)
(* and input.                                                              *)
(***************************************************************************)
StepsAreClauses ==
    /\ Len(steps) = Len(clauses)
    /\ \A i \in 1..Len(steps) :
         /\ Trim(steps[i][1]) = Trim(clauses[i].desc)
         /\ steps[i][2] = clauses[i].var
         /\ steps[i][3] = clauses[i].tool
         /\ Trim(steps[i][4]) = Trim(clauses[i].input)

C10_Outcome ==
    /\ (pc = "END") <=> ("result" \in has)
    /\ (pc = "failed") <=> (error # "none")
    /\ nsolve <= 1
    /\ "result" \in has =>
         /\ nsolve = 1
         /\ error = "none"
         /\ "results" \in has
         /\ Len(results) = Len(steps)
         /\ \A i \in 1..Len(steps) : steps[i][2] \in DictKeys(results)
         /\ result \in AnswerTexts
    /\ error # "none" => "result" \notin has /\ result = <<>>

\* C10: the outcome is an answer or a failure in every reachable state, a
\* set answer stays as it is, and a failed run never gets an answer
C10_AnswerOrFailure ==
    /\ []C10_Outcome
    /\ [][("result" \in has => result' = result /\ "result" \in has')
          /\ (error # "none" => error' = error /\ "result" \notin has')]_vars

\* C10 happens: a run of MaxClauses steps ends with an answer
C10_Witness ==
    /\ pc = "END"
    /\ Len(steps) = MaxClauses
    /\ result \in AnswerTexts

(***************************************************************************)
(* C11.  No retry after a dispatch failure: the only tool call that has    *)
(* not returned is the last one, and it is there exactly when the run      *)
(* failed in search.invoke or llm.invoke; the failed call was the call of  *)
(* the step after the stored results and left results as it found them;    *)
(* after it no tool call is made, results does not change and solve does   *)
(* not run.                                                                *)
(***************************************************************************)
C11_DispatchFailureState ==
    /\ Len(dispatched) \in {nexec, nexec + 1}
    /\ (Len(dispatched) = nexec + 1) <=> (error = "DispatchFailure")
    /\ error = "DispatchFailure" =>
         LET last == dispatched[Len(dispatched)]
         IN  /\ pc = "failed"
             /\ last.env = CurResults
             /\ last.idx = Len(CurResults) + 1
             /\ Len(CurResults) < Len(steps)
             /\ nsolve = 0
             /\ "result" \notin has

\* C11: the state after a failed dispatch is as described in every reachable
\* state, the failing call writes nothing, and nothing is dispatched after it
C11_NoRetry ==
    /\ []C11_DispatchFailureState
    /\ [][error' = "DispatchFailure" /\ error = "none" =>
            results' = results /\ has' = has /\ nexec' = nexec]_vars
    /\ [][error = "DispatchFailure" =>
            dispatched' = dispatched /\ results' = results /\ nsolve' = nsolve]_vars

\* C11 happens: the call of the second of two steps raises
C11_Witness ==
    /\ error = "DispatchFailure"
    /\ Len(results) = 1
    /\ Len(steps) = 2
    /\ Len(dispatched) = 2

(***************************************************************************)
(* C13.  Lazy substitution and field ownership: once get_plan has          *)
(* returned, the steps stay the tuples the parser made; a run of           *)
(* tool_execution leaves task, plan_string, steps and result as they were, *)
(* writes no key but results, and changes results at most in the entry of  *)
(* the variable of the step it executed; a run of solve leaves task,       *)
(* plan_string, steps and results as they were and writes no key but       *)
(* result.                                                                 *)
(***************************************************************************)
C13_StepsKept ==
    Planned => steps' = steps /\ plan_string' = plan_string /\ task' = task

C13_ToolFrame ==
    (Planned /\ pc = "tool") =>
        /\ task' = task
        /\ plan_string' = plan_string
        /\ steps' = steps
        /\ result' = result
        /\ has' \subseteq (has \cup {"results"})
        /\ results' # results =>
             /\ Len(results') \in {Len(CurResults), Len(CurResults) + 1}
             /\ \A i \in 1..Len(CurResults) :
                  CurResults[i][1] # CurName => results'[i] = CurResults[i]
             /\ DictKeys(results') = DictKeys(CurResults) \cup {CurName}

C13_SolveFrame ==
    pc = "solve" =>
        /\ task' = task
        /\ plan_string' = plan_string
        /\ steps' = steps
        /\ results' = results
        /\ has' \subseteq (has \cup {"result"})

\* C13: the steps are never rewritten, and tool_execution and solve change
\* only the field each of them owns
C13_FieldOwnership ==
    /\ [][C13_StepsKept]_vars
    /\ [][C13_ToolFrame]_vars
    /\ [][C13_SolveFrame]_vars

\* C13 happens: a tool call was made with a substituted input, solve has run,
\* and the step still holds the raw input
C13_Witness ==
    /\ pc = "END"
    /\ \E j \in 1..Len(dispatched) :
         /\ dispatched[j].input # dispatched[j].raw
         /\ steps[dispatched[j].idx][4] = dispatched[j].raw
    /\ \E i \in 1..Len(steps) : Count(transcript, steps[i][4]) = 0

(***************************************************************************)
(* Substitution by whole tokens, in one pass: every token #E<digits> of    *)
(* the text that is a key of d is replaced by its value, every other       *)
(* character is kept, and the text put in is not looked at again.          *)
(***************************************************************************)
RECURSIVE TokenSubst(_, _)
TokenSubst(s, d) ==
    IF Len(s) = 0 THEN <<>>
    ELSE IF LitAt(s, 1, HashE) /\ RunEnd(s, 3, Digit) > 3
    THEN LET e == RunEnd(s, 3, Digit)
             tok == SubSeq(s, 1, e - 1)
         IN  (IF tok \in DictKeys(d) THEN DictGet(d, tok) ELSE tok)
               \o TokenSubst(Drop(s, e - 1), d)
    ELSE <<Head(s)>> \o TokenSubst(Tail(s), d)

(***************************************************************************)
(* C14.  Dataflow between steps: the input of the tool call of step k is   *)
(* the raw input of the step with the variable tokens of the steps before  *)
(* k replaced by their stored results and with nothing else changed, so a  *)
(* token that names step k or a later step is still there.                 *)
(***************************************************************************)
C14_Dataflow ==
    \A j \in 1..Len(dispatched) :
        LET call == dispatched[j]
        IN  /\ DictKeys(call.env) = StepVars(call.idx - 1)
            /\ call.input = TokenSubst(call.raw, call.env)

(***************************************************************************)
(* C15.  Whole-token substitution: with #E1 and #E10 both in results, the  *)
(* replacement of #E1 leaves every occurrence of #E10 in the text alone,   *)
(* and the output holds the stored result of #E10 once for every           *)
(* occurrence of #E10 in the input.                                        *)
(***************************************************************************)
C15_WholeToken ==
    \A s \in Substitutions :
        (E1 \in DictKeys(s.env) /\ E10 \in DictKeys(s.env)) =>
            /\ Count(Replace(s.raw, E1, DictGet(s.env, E1)), E10)
                 = Count(s.raw, E10)
            /\ Count(s.out, DictGet(s.env, E10)) >= Count(s.raw, E10)

(***************************************************************************)
(* C16.  Transcript order and fidelity.  The transcript with one entry     *)
(* 'Plan: <description> / <label> = <tool>[<input>]' per step, in step     *)
(* order, the i-th entry showing the input ins[i]; the label is the        *)
(* variable of the step after the substitution loop of solve.              *)
(***************************************************************************)
RECURSIVE EntriesFrom(_, _)
EntriesFrom(i, ins) ==
    IF i > Len(steps) THEN <<>>
    ELSE PlanLit \o <<" ">> \o steps[i][1] \o <<NL>>
           \o Substitute(steps[i][2], CurResults) \o <<" ", "=", " ">>
           \o steps[i][3] \o <<"[">> \o ins[i] \o <<"]">>
           \o EntriesFrom(i + 1, ins)

\* the inputs the tool calls of the steps were made with
DispatchedInputs == [i \in 1..Len(steps) |-> dispatched[i].input]

\* the raw inputs of the steps with the whole of results substituted
FullySubstitutedInputs ==
    [i \in 1..Len(steps) |-> Substitute(steps[i][4], CurResults)]

\* C16 as stated: the transcript of solve shows, step by step, the input
\* that tool_execution dispatched for the step
C16_TranscriptShowsDispatched ==
    nsolve > 0 => transcript = EntriesFrom(1, DispatchedInputs)

\* C16 with the whole of results substituted: the transcript of solve has one
\* entry per step in step order, showing the raw input with every entry of
\* results substituted; that is the dispatched input of the step whenever the
\* dispatched input holds no variable of the step itself or of a later step
C16_TranscriptShowsAllResults ==
    nsolve > 0 =>
        /\ transcript = EntriesFrom(1, FullySubstitutedInputs)
        /\ \A i \in 1..Len(steps) :
             (\A m \in i..Len(steps) :
                  Count(dispatched[i].input, steps[m][2]) = 0)
                => FullySubstitutedInputs[i] = dispatched[i].input

\* C16 happens: solve has built the transcript of MaxClauses steps, one step
\* shown with the input it was dispatched with and changed by substitution,
\* another shown with an input that was never dispatched
C16_Witness ==
    /\ nsolve > 0
    /\ Len(steps) = MaxClauses
    /\ \E i \in 1..Len(steps) :
         /\ FullySubstitutedInputs[i] = dispatched[i].input
         /\ dispatched[i].input # steps[i][4]
    /\ \E i \in 1..Len(steps) :
         FullySubstitutedInputs[i] # dispatched[i].input


(***************************************************************************)
(* C12.  Task isolation: with two runs interleaved, each on its own state  *)
(* record, the results of a run are a dict object only that run has        *)
(* written to, every entry of it is keyed by a variable of that run's own  *)
(* steps, and a node of one run leaves the other run's record, its         *)
(* results, len(results) and its routing decision as they were.            *)
(***************************************************************************)
C12_OwnEntries ==
    /\ \A t \in Tasks :
         "results" \in run[t].has =>
           /\ run[t].ref \in 1..Len(heap)
           /\ owner[run[t].ref] = {t}
           /\ DictKeys(TaskResults(t)) \subseteq
                {run[t].steps[i][2] : i \in 1..Len(run[t].steps)}
           /\ Len(TaskResults(t)) <= run[t].nexec
    /\ \A t, u \in Tasks :
         (t # u /\ "results" \in run[t].has /\ "results" \in run[u].has)
           => run[t].ref # run[u].ref

C12_OthersUntouched ==
    \A t \in Tasks \ {actor'} :
      /\ run'[t] = run[t]
      /\ TaskResults(t)' = TaskResults(t)
      /\ Len(TaskResults(t)') = Len(TaskResults(t))
      /\ _route(run'[t].has, TaskResults(t)', run'[t].steps)
           = _route(run[t].has, TaskResults(t), run[t].steps)

C12_TaskIsolation == []C12_OwnEntries /\ [][C12_OthersUntouched]_vars

\* both runs have stored a result under the same variable, the values
\* differ, and one run has ended while the other is still in its loop
C12_Witness ==
    /\ run[1].pc = "END"
    /\ run[2].pc = "tool"
    /\ Len(run[2].steps) = 2
    /\ Len(TaskResults(1)) = 1
    /\ Len(TaskResults(2)) = 1
    /\ TaskResults(1)[1][1] = TaskResults(2)[1][1]
    /\ TaskResults(1)[1][2] # TaskResults(2)[1][2]

=============================================================================
